---------------------------- MODULE Spec2Model ----------------------------
(***************************************************************************)
(* A model of the CHRFORGE request pipeline: RequestClient.request and     *)
(* RequestClient._request_core (client/request_client.py) running on a     *)
(* BaseClient (client/base_client.py) with its event bus and credential.   *)
(*                                                                         *)
(* The codec (client.thrift), the transport (client.fetch), the storage    *)
(* (client.storage) and the refresh procedure (client.auth) are abstract   *)
(* in the source: their results are inputs chosen by the environment.      *)
(***************************************************************************)
EXTENDS Integers, Sequences, FiniteSets, TLC

VARIABLES
    auth_token,      \* BaseClient.auth_token ("" models None and the empty string)
    event_handlers,  \* BaseClient._event_handlers: event -> list of handlers
    refreshToken,    \* client.storage's "refreshToken" entry ("" when absent)
    tasks,           \* coroutine handlers scheduled by asyncio.create_task, not yet run
    delivered,       \* what the bus did during the last step (invocations, schedulings, log records)
    call,            \* per logical call: the locals of request/_request_core and its history
    config           \* the process environment, the registry's domain table and the last
                     \* result a caller of the config package received

vars == <<auth_token, event_handlers, refreshToken, tasks, delivered, call, config>>

------------------------------------------------------------------------------
(* Bounds of the model *)

\* the longest handler list an event may hold
MaxHandlers == 2
\* the most coroutine handlers that may be waiting for the event loop
MaxTasks == 2
\* the most descriptors callers register after startup
MaxRegisters == 3

------------------------------------------------------------------------------
(* Values *)

AuthEvent == "update:authtoken"
Events == {AuthEvent, "log"}

\* handlers a caller may register: a plain callable, a callable that raises,
\* and a coroutine function
Handlers == {"sync", "raising", "coro"}

\* the same, and plain callables that call off() on the event they handle
ReentrantHandlers == Handlers \cup {"off_self", "off_sync"}

\* credentials: the one a caller sets, the one a refresh sets ("" when it sets
\* none), the one a response announces in x-line-next-access ("" when the
\* header is missing), and the storage's refreshToken ("" when it has none)
Tokens == {"t1"}
RefreshedTokens == {"", "t2"}
NextTokens == {"", "t3"}
RefreshTokens == {"", "r1"}

Paths == {"/S3", "/CH3", "/SQ1", "/X9"}
\* parse: True, a struct name, False
ParseModes == {"True", "MyStruct", "False"}
MethodName == "getProfile"

MUST_REFRESH == "MUST_REFRESH_V3_TOKEN"

\* A thrift value: None, a falsy value (False, 0, "", {}), a truthy success
\* value, or an exception struct with a code.  schema is the struct name a
\* rename has applied, "raw" when none has.
None == [tag |-> "none", code |-> "", schema |-> ""]
RawFalsy == [tag |-> "falsy", code |-> "", schema |-> "raw"]
RawValue == [tag |-> "val", code |-> "", schema |-> "raw"]
RawError(code) == [tag |-> "err", code |-> code, schema |-> "raw"]

\* Python truthiness of a value
Truthy(v) == v.tag \in {"val", "err"}

Field0Values == {RawValue, RawFalsy}
Field1Values == {RawError(MUST_REFRESH), RawError("SOME_ERROR"), RawFalsy}

\* dict.get(key): None when the key is missing
Get(d, k) == IF k \in DOMAIN d THEN d[k] ELSE None

\* del d[k]
Del(d, k) == [x \in DOMAIN d \ {k} |-> d[x]]

\* d[k] = v
Put(d, k, v) == [x \in DOMAIN d \cup {k} |-> IF x = k THEN v ELSE d[x]]

EmptyDict == [x \in {} |-> None]

\* The records read_thrift may return: fields 0 and 1 present or not, or only
\* a reserved field
DecodedRecords ==
    { [k \in ks |-> IF k = "0" THEN v0 ELSE v1] :
        ks \in SUBSET {"0", "1"}, v0 \in Field0Values, v1 \in Field1Values }
    \cup { [k \in {"2"} |-> RawValue] }

------------------------------------------------------------------------------
(* The codec, client.thrift: an abstract capability of the client *)

\* thrift.rename_thrift(struct_name, value): the value with its field ids
\* replaced by the names of struct_name's schema
rename_thrift(struct_name, v) ==
    IF v.tag = "none" THEN v ELSE [v EXCEPT !.schema = struct_name]

\* thrift.rename_data(res, square): renames the whole result struct, field 0
\* to "success" and field 1 to "e", with the square schema family when asked
rename_data(data, square) ==
    LET schema == IF square THEN "square_result" ELSE "result"
        NameOf(k) == IF k = "0" THEN "success" ELSE IF k = "1" THEN "e" ELSE k
        KeyOf(n) == IF n = "success" THEN "0" ELSE IF n = "e" THEN "1" ELSE n
    IN  [n \in {NameOf(k) : k \in DOMAIN data} |-> rename_thrift(schema, data[KeyOf(n)])]

\* thrift.write_thrift(value, method_name, protocol): the request frame
write_thrift(value, method_name, protocol) ==
    [frame |-> "call", value |-> value, method_name |-> method_name, protocol |-> protocol]

------------------------------------------------------------------------------
(* RequestClient: tables and pure helpers *)

EXCEPTION_TYPES ==
    [p \in {"/S3", "/S4", "/SYNC4", "/SYNC3", "/CH3", "/CH4", "/SQ1", "/LIFF1",
            "/api/v3p/rs", "/api/v3/TalkService.do"} |->
        CASE p \in {"/CH3", "/CH4"} -> "ChannelException"
          [] p = "/SQ1" -> "SquareException"
          [] p = "/LIFF1" -> "LiffException"
          [] OTHER -> "TalkException"]

SQUARE_ENDPOINTS == {"/SQ1", "/SQLV1"}

\* a lookup that answers the generic kind for every path
ExceptionStructGeneric(path) == "TalkException"

\* self.EXCEPTION_TYPES.get(path, "TalkException")
ExceptionStruct(path) ==
    IF path \in DOMAIN EXCEPTION_TYPES THEN EXCEPTION_TYPES[path] ELSE "TalkException"

\* client.endpoint or "legy.line-apps.com"; the client's endpoint is None
\* after construction
endpoint == "legy.line-apps.com"
system_type == "ANDROID\t13.4.1\tAndroid OS\t12.1.4"
user_agent == "Line/13.4.1"

\* _get_protocol(protocol_type)
get_protocol(protocol_type) ==
    [type |-> protocol_type, name |-> "protocol_" \o ToString(protocol_type)]

\* a merge in which a's entries win
MergeFirstWins(a, b) ==
    [k \in DOMAIN a \cup DOMAIN b |-> IF k \in DOMAIN a THEN a[k] ELSE b[k]]

\* {**a, **b}: b's entries win
Merge(a, b) ==
    [k \in DOMAIN a \cup DOMAIN b |-> IF k \in DOMAIN b THEN b[k] ELSE a[k]]

\* the keys get_header always sets
FixedHeaderKeys ==
    {"Host", "accept", "user-agent", "x-line-application", "content-type", "x-lal",
     "x-lpv", "x-lhm", "accept-encoding"}

\* a composer that sets x-line-access whatever the credential is
GetHeaderAlwaysCredential(override_method, token) ==
    [k \in FixedHeaderKeys \cup {"x-line-access"} |->
        IF k = "x-lhm" THEN override_method
        ELSE IF k = "x-line-access" THEN token
        ELSE "fixed"]

\* get_header(override_method), reading the client's credential `token`
get_header(override_method, token) ==
    LET fixed == [k \in {"Host", "accept", "user-agent", "x-line-application",
                         "content-type", "x-lal", "x-lpv", "x-lhm", "accept-encoding"} |->
            CASE k = "Host" -> endpoint
              [] k = "accept" -> "application/x-thrift"
              [] k = "user-agent" -> user_agent
              [] k = "x-line-application" -> system_type
              [] k = "content-type" -> "application/x-thrift"
              [] k = "x-lal" -> "ja_JP"
              [] k = "x-lpv" -> "1"
              [] k = "x-lhm" -> override_method
              [] OTHER -> "gzip"]
    IN  IF token # "" THEN Put(fixed, "x-line-access", token) ELSE fixed

\* a has_error that does not ask whether the record holds anything
HasErrorWhenNoSuccess(data) == ~Truthy(Get(data, "0"))

\* has_error = not res.data.get(0) and len(res.data) > 0
HasError(data) == ~Truthy(Get(data, "0")) /\ Cardinality(DOMAIN data) > 0

\* ParsedThrift.__post_init__: the success flag of a fresh ParsedThrift
ParsedThriftSuccess(data) == ~(~Truthy(Get(data, "success")) /\ Truthy(Get(data, "e")))

\* The error slot of the branches parse=<struct name> and parse=False
RenameErrorSlot(data, path) ==
    IF Truthy(Get(data, "1"))
    THEN Del(Put(data, "e", rename_thrift(ExceptionStruct(path), data["1"])), "1")
    ELSE data

\* res.data after the branch on parse
Classified(data, parse, path) ==
    IF parse = "True"
    THEN rename_data(data, path \in SQUARE_ENDPOINTS)
    ELSE LET success == IF parse = "False" THEN Get(data, "0")
                        ELSE rename_thrift(parse, Get(data, "0"))
             d1 == Put(data, "success", success)
             d2 == IF "0" \in DOMAIN d1 THEN Del(d1, "0") ELSE d1
         IN  RenameErrorSlot(d2, path)

\* the calls of the codec's rename capability the branch on parse makes
RenameCalls(data, parse, path) ==
    IF parse = "True" THEN <<[op |-> "rename_data", arg |-> ""]>>
    ELSE (IF parse = "False" THEN <<>> ELSE <<[op |-> "rename_thrift", arg |-> parse]>>)
         \o (IF Truthy(Get(data, "1"))
             THEN <<[op |-> "rename_thrift", arg |-> ExceptionStruct(path)]>>
             ELSE <<>>)

\* is_refresh without the look into the storage
IsRefreshByCodeOnly(data, rt) ==
    /\ Truthy(Get(data, "e"))
    /\ Get(data, "e").code = MUST_REFRESH

\* is_refresh, with rt the storage's refreshToken
IsRefresh(data, rt) ==
    /\ Truthy(Get(data, "e"))
    /\ Get(data, "e").code = MUST_REFRESH
    /\ rt # ""

\* a retry that forgets the is_re_request flag
ShouldRetryEveryTime(is_refresh, is_re_request) == is_refresh

\* the condition of the retry: is_refresh and not is_re_request
ShouldRetry(is_refresh, is_re_request) == is_refresh /\ ~is_re_request

\* the first bytes of the body the diagnostic renders: parsed_body[:100]
HexLimit == 100

HexDigits == <<"0", "1", "2", "3", "4", "5", "6", "7", "8", "9",
               "a", "b", "c", "d", "e", "f">>

\* f"{b:02x}"
Hex2(b) == <<HexDigits[(b \div 16) + 1], HexDigits[(b % 16) + 1]>>

\* " ".join(f"{b:02x}" for b in bytes), as a sequence of characters: two
\* digits per byte and one space between neighbours
JoinHex(bytes) ==
    [i \in 1..(IF Len(bytes) = 0 THEN 0 ELSE 3 * Len(bytes) - 1) |->
        LET k == ((i - 1) \div 3) + 1
            r == (i - 1) % 3
        IN  IF r = 2 THEN " " ELSE Hex2(bytes[k])[r + 1]]

\* the whole body, with no slice
WholeBody(body) == body

\* parsed_body[:100]
BodyPrefix(body) ==
    SubSeq(body, 1, IF Len(body) < HexLimit THEN Len(body) ELSE HexLimit)

\* body_hex
BodyHex(body) == JoinHex(BodyPrefix(body))

------------------------------------------------------------------------------
(* BaseClient: the event bus *)

BusRecord(kind, event, arg, handler, seen) ==
    [kind |-> kind, event |-> event, arg |-> arg, handler |-> handler, seen |-> seen]

\* One pass of emit's loop body for `handler`: a coroutine function is
\* scheduled with asyncio.create_task, any other handler is called inline and
\* sees the client as it is (`token` is auth_token at that moment); an
\* exception of the handler is caught and logged.
HandlerStep(handler, event, arg, token) ==
    CASE handler = "coro" -> <<BusRecord("schedule", event, arg, handler, "")>>
      [] handler = "raising" -> <<BusRecord("invoke", event, arg, handler, token),
                                  BusRecord("error_log", event, arg, handler, "")>>
      [] OTHER -> <<BusRecord("invoke", event, arg, handler, token)>>

\* a removal that drops every registration of x
RemoveEvery(list, x) == SelectSeq(list, LAMBDA y : y # x)

RECURSIVE RemoveFirst(_, _)
\* list.remove(x); the list unchanged when x is not in it (ValueError is passed)
RemoveFirst(list, x) ==
    IF list = <<>> THEN <<>>
    ELSE IF Head(list) = x THEN Tail(list)
    ELSE <<Head(list)>> \o RemoveFirst(Tail(list), x)

\* the handler a handler removes with off(event, ...) when it is called:
\* "off_self" removes itself, "off_sync" the plain callable; "" for the
\* handlers that leave the registry alone
Removes(handler) ==
    CASE handler = "off_self" -> "off_self"
      [] handler = "off_sync" -> "sync"
      [] OTHER -> ""

\* the list emit iterates, after `handler` has been called: off() removes
\* from the very list object the loop is walking
AfterHandler(handlers, handler) ==
    IF Removes(handler) = "" THEN handlers ELSE RemoveFirst(handlers, Removes(handler))

RECURSIVE EmitLoopStopsAtRaise(_, _, _, _, _)
\* an emit loop without the try/except: the first raising handler ends it
EmitLoopStopsAtRaise(handlers, i, event, arg, token) ==
    IF i > Len(handlers) THEN <<>>
    ELSE IF handlers[i] = "raising"
         THEN <<BusRecord("invoke", event, arg, handlers[i], token)>>
    ELSE HandlerStep(handlers[i], event, arg, token)
            \o EmitLoopStopsAtRaise(handlers, i + 1, event, arg, token)

RECURSIVE EmitLoop(_, _, _, _, _)
\* for handler in handlers: ..., from index i
EmitLoop(handlers, i, event, arg, token) ==
    IF i > Len(handlers) THEN <<>>
    ELSE HandlerStep(handlers[i], event, arg, token)
            \o EmitLoop(AfterHandler(handlers, handlers[i]), i + 1, event, arg, token)

RECURSIVE EmitLeaves(_, _)
\* the handler list of the event when the loop, at index i, is over
EmitLeaves(handlers, i) ==
    IF i > Len(handlers) THEN handlers
    ELSE EmitLeaves(AfterHandler(handlers, handlers[i]), i + 1)

\* emit(event, arg) with the registry `registry`: everything the bus does
emit(registry, event, arg, token) ==
    <<BusRecord("emit", event, arg, "", "")>>
        \o EmitLoop(registry[event], 1, event, arg, token)

\* the tasks asyncio.create_task added during an emit
Scheduled(records) ==
    LET IsSchedule(r) == r.kind = "schedule"
        hits == SelectSeq(records, IsSchedule)
    IN  [i \in 1..Len(hits) |-> [handler |-> hits[i].handler, event |-> hits[i].event,
                                 arg |-> hits[i].arg]]

\* the event loop has room for the tasks an emit of `event` would schedule
CanEmit(event) ==
    Len(tasks) + Cardinality({i \in DOMAIN event_handlers[event] :
                                 event_handlers[event][i] = "coro"}) <= MaxTasks

\* on(event, handler)
On(event, handler) ==
    /\ Len(event_handlers[event]) < MaxHandlers
    /\ event_handlers' = [event_handlers EXCEPT ![event] = Append(@, handler)]
    /\ delivered' = <<>>
    /\ UNCHANGED <<auth_token, refreshToken, tasks, call>>

\* off(event, handler)
Off(event, handler) ==
    /\ event_handlers' = [event_handlers EXCEPT ![event] = RemoveFirst(@, handler)]
    /\ delivered' = <<>>
    /\ UNCHANGED <<auth_token, refreshToken, tasks, call>>

\* off(event)
OffAll(event) ==
    /\ event_handlers' = [event_handlers EXCEPT ![event] = <<>>]
    /\ delivered' = <<>>
    /\ UNCHANGED <<auth_token, refreshToken, tasks, call>>

\* set_auth_token with its two statements swapped: emit, then assign
SetAuthTokenEmitFirst(token) ==
    /\ CanEmit(AuthEvent)
    /\ auth_token' = token
    /\ delivered' = emit(event_handlers, AuthEvent, token, auth_token)
    /\ tasks' = tasks \o Scheduled(delivered')
    /\ UNCHANGED <<event_handlers, refreshToken, call>>

\* set_auth_token(token)
SetAuthToken(token) ==
    /\ CanEmit(AuthEvent)
    /\ auth_token' = token
    /\ delivered' = emit(event_handlers, AuthEvent, token, auth_token')
    /\ tasks' = tasks \o Scheduled(delivered')
    /\ UNCHANGED <<event_handlers, refreshToken, call>>

\* the event loop runs the oldest scheduled coroutine handler
RunTask ==
    /\ tasks # <<>>
    /\ delivered' = <<BusRecord("task_run", Head(tasks).event, Head(tasks).arg,
                                Head(tasks).handler, auth_token)>>
    /\ tasks' = Tail(tasks)
    /\ UNCHANGED <<auth_token, event_handlers, refreshToken, call>>

------------------------------------------------------------------------------
(* RequestClient.request and RequestClient._request_core *)

\* BaseClient.timeout, which request() takes when timeout is None
DefaultTimeout == 30000
\* request()'s default protocol_type
DefaultProtocol == 3

\* header overrides a caller may pass
HeaderOverrides ==
    { EmptyDict,
      [k \in {"x-lal", "x-extra"} |-> IF k = "x-lal" THEN "en_US" ELSE "1"] }

\* response bodies the transport may deliver
ByteSeq(n) == [i \in 1..n |-> (i * 37 + 5) % 256]
Bodies == { ByteSeq(n) : n \in {0, 1, 2, 99, 100, 101, 130} } \cup { <<0, 1>> }

TraceEntry(op, arg) == [op |-> op, arg |-> arg]

NoMessage == [text |-> "", method_name |-> "", path |-> "", payload |-> None, hex |-> <<>>]
NoOutcome == [kind |-> "none", stage |-> "", value |-> None, details |-> None,
              message |-> NoMessage]

\* the locals of a call before request() is entered
IdleCall ==
    [pc |-> "idle", path |-> "", parse |-> "", append_headers |-> EmptyDict,
     timeout |-> 0, is_re_request |-> FALSE, next_token |-> "", body |-> <<>>,
     raw |-> EmptyDict, data |-> EmptyDict, has_error |-> FALSE, success |-> TRUE,
     fetches |-> 0, refreshes |-> 0, inflight |-> 0, refresh_pending |-> FALSE,
     requests |-> <<>>, attempts |-> <<>>, outcome |-> NoOutcome, trace |-> <<>>]

\* raise InternalError(error_type, message, details) out of request()
Raise(cr, error_type, stage, message, details) ==
    [cr EXCEPT !.pc = "done",
               !.outcome = [kind |-> error_type, stage |-> stage, value |-> None,
                            details |-> details, message |-> message],
               !.trace = Append(@, TraceEntry("raise", error_type))]

\* _request_core from its entry to the call of client.fetch, with the
\* client's credential `token` read by get_header
BuildAttempt(cr, is_re_request, token) ==
    LET protocol == get_protocol(DefaultProtocol)
        headers == Merge(get_header("POST", token), cr.append_headers)
        thrift_request == write_thrift("value", MethodName, protocol)
        options == [url |-> <<"https://", endpoint, cr.path>>, method |-> "POST",
                    headers |-> headers, timeout |-> cr.timeout, body |-> thrift_request]
    IN  [cr EXCEPT !.pc = "fetching",
                   !.is_re_request = is_re_request,
                   !.next_token = "", !.raw = EmptyDict, !.data = EmptyDict,
                   !.has_error = FALSE, !.success = TRUE,
                   !.requests = Append(@, options),
                   !.fetches = @ + 1,
                   !.inflight = @ + 1,
                   !.trace = @ \o <<TraceEntry("log", "writeThrift"),
                                    TraceEntry("write_thrift", MethodName),
                                    TraceEntry("log", "request"),
                                    TraceEntry("fetch", cr.path)>>]

\* a request() that takes the retry flag from the calls the client has
\* already run instead of starting with is_re_request=False
RequestKeepsRetryFlag(c, path, parse, headers) ==
    /\ call[c].pc = "idle"
    /\ call' = [call EXCEPT ![c] =
            BuildAttempt([IdleCall EXCEPT !.path = path, !.parse = parse,
                                          !.append_headers = headers,
                                          !.timeout = 30000],
                         \E d \in DOMAIN call : call[d].is_re_request, auth_token)]
    /\ delivered' = <<>>
    /\ UNCHANGED <<auth_token, event_handlers, refreshToken, tasks>>

\* request(value, method_name, protocol_type, parse, path, headers, timeout)
\* up to the first await, the call of client.fetch
Request(c, path, parse, headers) ==
    /\ call[c].pc = "idle"
    /\ call' = [call EXCEPT ![c] =
            BuildAttempt([IdleCall EXCEPT !.path = path, !.parse = parse,
                                          !.append_headers = headers,
                                          !.timeout = DefaultTimeout],
                         FALSE, auth_token)]
    /\ delivered' = <<>>
    /\ UNCHANGED <<auth_token, event_handlers, refreshToken, tasks>>

\* a response whose header is read and dropped
NextTokenIgnored(registry, next_token, token) == <<>>

\* what _request_core emits for the header x-line-next-access of a response
NextTokenEmit(registry, next_token, token) ==
    IF next_token # "" THEN emit(registry, AuthEvent, next_token, token) ELSE <<>>

\* a single except clause for every failure of client.fetch
TransportErrorTypeOneClause(timed_out) == "RequestError"

\* the kind of InternalError a failure of client.fetch becomes
TransportErrorType(timed_out) == IF timed_out THEN "RequestTimeout" ELSE "RequestError"

\* client.fetch returns a response whose x-line-next-access header is
\* next_token ("" when it has none); the next await is the body's
FetchReturn(c, next_token) ==
    /\ call[c].pc = "fetching"
    /\ next_token # "" => CanEmit(AuthEvent)
    /\ delivered' = NextTokenEmit(event_handlers, next_token, auth_token)
    /\ tasks' = tasks \o Scheduled(delivered')
    /\ call' = [call EXCEPT ![c] =
            [@ EXCEPT !.pc = "reading",
                      !.inflight = @ - 1,
                      !.next_token = next_token,
                      !.trace = @ \o <<TraceEntry("fetch_return", next_token)>>
                                  \o [i \in 1..(IF delivered' = <<>> THEN 0 ELSE 1) |->
                                        TraceEntry("emit", delivered'[1].arg)]
                                  \o <<TraceEntry("read_body", "")>>]]
    /\ UNCHANGED <<auth_token, event_handlers, refreshToken>>

\* client.fetch raises: asyncio.TimeoutError or any other exception
FetchFail(c, timed_out) ==
    /\ call[c].pc = "fetching"
    /\ call' = [call EXCEPT ![c] =
            Raise([@ EXCEPT !.inflight = @ - 1,
                            !.trace = Append(@, TraceEntry("fetch_fail",
                                                IF timed_out THEN "timeout" ELSE "error"))],
                  TransportErrorType(timed_out), "fetch",
                  [NoMessage EXCEPT !.text = IF timed_out THEN "Request timeout after"
                                             ELSE "Request failed for",
                                    !.method_name = MethodName, !.path = call[c].path],
                  None)]
    /\ delivered' = <<>>
    /\ UNCHANGED <<auth_token, event_handlers, refreshToken, tasks>>

\* a body read failure that is met after the response has been logged
ReadFailAfterResponseLog(c) ==
    /\ call[c].pc = "reading"
    /\ call' = [call EXCEPT ![c] =
            Raise([@ EXCEPT !.trace = @ \o <<[op |-> "log", arg |-> "response"],
                                             [op |-> "read_fail", arg |-> ""]>>],
                  "RequestError", "body",
                  [NoMessage EXCEPT !.text = "Failed to read response body"], None)]
    /\ delivered' = <<>>
    /\ UNCHANGED <<auth_token, event_handlers, refreshToken, tasks>>

\* response.content() / response.read() raises
ReadFail(c) ==
    /\ call[c].pc = "reading"
    /\ call' = [call EXCEPT ![c] =
            Raise([@ EXCEPT !.trace = Append(@, TraceEntry("read_fail", ""))],
                  "RequestError", "body",
                  [NoMessage EXCEPT !.text = "Failed to read response body"], None)]
    /\ delivered' = <<>>
    /\ UNCHANGED <<auth_token, event_handlers, refreshToken, tasks>>

\* the body arrives and thrift.read_thrift raises on it
DecodeFail(c, body) ==
    /\ call[c].pc = "reading"
    /\ call' = [call EXCEPT ![c] =
            Raise([@ EXCEPT !.body = body,
                            !.trace = @ \o <<TraceEntry("log", "response"),
                                             TraceEntry("read_thrift", "raise")>>],
                  "RequestError", "decode",
                  [NoMessage EXCEPT !.text = "Request internal failed: Invalid response buffer",
                                    !.hex = BodyHex(body)],
                  None)]
    /\ delivered' = <<>>
    /\ UNCHANGED <<auth_token, event_handlers, refreshToken, tasks>>

\* a retry that drops the caller's header overrides and timeout
RetryArgumentsReset(cr) == [cr EXCEPT !.append_headers = EmptyDict, !.timeout = 0]

\* the arguments of the recursive _request_core call: path, value,
\* method_name, protocol_type, append_headers, override_method, parse and
\* timeout are passed on as they were received
RetryArguments(cr) == cr

\* try_refresh_token() called without await
RefreshNotAwaited == FALSE

\* `await self.client.auth.try_refresh_token()`: the retry waits for the
\* refresh to complete
RefreshAwaited == TRUE

\* the rest of _request_core once res.data is classified and, where the code
\* reads it, the storage's refreshToken is `rt`: raise, refresh, or return.
\* `token` is the client's credential, read only by a retry that does not
\* wait for the refresh.
Conclude(cr, rt, token) ==
    LET e == Get(cr.data, "e")
        is_refresh == IsRefresh(cr.data, rt)
        seen == [cr EXCEPT !.attempts = Append(@, [record |-> cr.raw, rt |-> rt])]
        message(payload) == [NoMessage EXCEPT !.text = "Request internal failed,",
                                              !.method_name = MethodName,
                                              !.path = cr.path,
                                              !.payload = payload]
    IN  CASE Truthy(e) /\ ~is_refresh ->
                Raise(seen, "RequestError", "error", message(e), e)
          [] ~(Truthy(e) /\ ~is_refresh) /\ cr.has_error /\ ~is_refresh ->
                Raise(seen, "RequestError", "has_error", message(cr.data), cr.data)
          [] OTHER ->
                IF ShouldRetry(is_refresh, cr.is_re_request)
                THEN LET invoked == [seen EXCEPT !.pc = "refreshing",
                                                 !.refreshes = @ + 1,
                                                 !.refresh_pending = TRUE,
                                                 !.trace = Append(@, TraceEntry("try_refresh_token", ""))]
                     IN  IF RefreshAwaited THEN invoked
                         ELSE BuildAttempt(RetryArguments(invoked), TRUE, token)
                ELSE [seen EXCEPT !.pc = "done",
                                  !.outcome = [NoOutcome EXCEPT !.kind = "returned",
                                                                !.stage = "return",
                                                                !.value = Get(cr.data, "success")],
                                  !.trace = Append(@, TraceEntry("return", ""))]

\* is_refresh reaches `await self.client.storage.get("refreshToken")`
ReadsStorage(data) == Truthy(Get(data, "e")) /\ Get(data, "e").code = MUST_REFRESH

\* the body arrives and thrift.read_thrift returns `record`: the response is
\* classified, then either the storage is awaited or the call concludes
Decoded(c, record) ==
    /\ call[c].pc = "reading"
    /\ LET data == Classified(record, call[c].parse, call[c].path)
           cr == [call[c] EXCEPT !.raw = record,
                                 !.success = ParsedThriftSuccess(record),
                                 !.has_error = HasError(record),
                                 !.data = data,
                                 !.trace = @ \o <<TraceEntry("log", "response"),
                                                  TraceEntry("read_thrift", "ok"),
                                                  TraceEntry("classify", call[c].parse)>>
                                             \o RenameCalls(record, call[c].parse, call[c].path)
                                             \o <<TraceEntry("log", "readThrift")>>]
       IN  call' = [call EXCEPT ![c] =
                IF ReadsStorage(data)
                THEN [cr EXCEPT !.pc = "storage",
                                !.trace = Append(@, TraceEntry("storage_get", ""))]
                ELSE Conclude(cr, refreshToken, auth_token)]
    /\ delivered' = <<>>
    /\ UNCHANGED <<auth_token, event_handlers, refreshToken, tasks>>

\* a storage read that finds no refreshToken while another call is refreshing,
\* so that concurrent refreshes are coalesced into one
StorageGetCoalesced(c) ==
    /\ call[c].pc = "storage"
    /\ call' = [call EXCEPT ![c] =
            Conclude(@, IF \E d \in DOMAIN call \ {c} : call[d].refreshes > 0
                        THEN "" ELSE refreshToken,
                     auth_token)]
    /\ delivered' = <<>>
    /\ UNCHANGED <<auth_token, event_handlers, refreshToken, tasks>>

\* client.storage.get("refreshToken") returns
StorageGet(c) ==
    /\ call[c].pc = "storage"
    /\ call' = [call EXCEPT ![c] = Conclude(@, refreshToken, auth_token)]
    /\ delivered' = <<>>
    /\ UNCHANGED <<auth_token, event_handlers, refreshToken, tasks>>

\* client.auth.try_refresh_token() completes, having set the new credential
\* `token` with set_auth_token ("" when it set none); _request_core then
\* calls itself with is_re_request=True, up to the call of client.fetch
RefreshDone(c, token) ==
    /\ call[c].refresh_pending
    /\ token # "" => CanEmit(AuthEvent)
    /\ auth_token' = IF token # "" THEN token ELSE auth_token
    /\ delivered' = IF token # "" THEN emit(event_handlers, AuthEvent, token, auth_token')
                    ELSE <<>>
    /\ tasks' = tasks \o Scheduled(delivered')
    /\ LET cr == [call[c] EXCEPT !.refresh_pending = FALSE,
                                 !.trace = Append(@, TraceEntry("refresh_done", token))]
       IN  call' = [call EXCEPT ![c] =
                IF cr.pc = "refreshing" THEN BuildAttempt(RetryArguments(cr), TRUE, auth_token')
                ELSE cr]
    /\ UNCHANGED <<event_handlers, refreshToken>>

\* the caller has the outcome of request(): the call's locals are gone
Return(c) ==
    /\ call[c].pc = "done"
    /\ call' = [call EXCEPT ![c] = IdleCall]
    /\ delivered' = <<>>
    /\ UNCHANGED <<auth_token, event_handlers, refreshToken, tasks>>

------------------------------------------------------------------------------
(* config/endpoints.py: DomainConfiguration and EndpointRegistry *)

\* the fields of DomainConfiguration, in the order reload_from_environment
\* assigns them
DomainFields == <<"line_host", "line_obs", "line_api", "line_access", "line_biz_timeline">>

\* the environment variable a field is read from
EnvName(f) ==
    CASE f = "line_host" -> "LINE_HOST_DOMAIN"
      [] f = "line_obs" -> "LINE_OBS_DOMAIN"
      [] f = "line_api" -> "LINE_API_DOMAIN"
      [] f = "line_access" -> "LINE_ACCESS_DOMAIN"
      [] OTHER -> "LINE_BIZ_TIMELINE_DOMAIN"

EnvNames == {EnvName(DomainFields[i]) : i \in DOMAIN DomainFields}

\* the field defaults of DomainConfiguration
DefaultDomain(f) ==
    CASE f = "line_host" -> "http://localhost:8111"
      [] f = "line_obs" -> "http://localhost:8112"
      [] f = "line_api" -> "http://localhost:8113"
      [] f = "line_access" -> "http://localhost:8114"
      [] OTHER -> "http://localhost:8121"

\* a lookup that falls back on the field default of the variable's field
\* instead of the default it is given
GetenvRevertsToDefault(environ, name, default) ==
    IF environ[name] = ""
    THEN DefaultDomain(DomainFields[CHOOSE i \in DOMAIN DomainFields :
                                        EnvName(DomainFields[i]) = name])
    ELSE environ[name]

\* os.getenv(name, default) in the environment `environ`, where "" is unset
getenv(environ, name, default) == IF environ[name] = "" THEN default ELSE environ[name]

\* DomainConfiguration() built in the environment `environ`
DomainConfiguration(environ) ==
    [f \in {DomainFields[i] : i \in DOMAIN DomainFields} |->
        getenv(environ, EnvName(f), DefaultDomain(f))]

\* the i-th assignment of reload_from_environment
ReloadField(table, environ, i) ==
    [table EXCEPT ![DomainFields[i]] = getenv(environ, EnvName(DomainFields[i]), @)]

RECURSIVE ReloadFrom(_, _, _)
\* the table after the assignments from the i-th on
ReloadFrom(table, environ, i) ==
    IF i > Len(DomainFields) THEN table
    ELSE ReloadFrom(ReloadField(table, environ, i), environ, i + 1)

\* str.startswith
StartsWith(s, prefix) == Len(s) >= Len(prefix) /\ SubSeq(s, 1, Len(prefix)) = prefix

\* DomainConfiguration.get_domain_for_endpoint
get_domain_for_endpoint(table, endpoint_path) ==
    IF StartsWith(endpoint_path, "/BEACON") THEN table.line_obs
    ELSE IF StartsWith(endpoint_path, "/CH") \/ StartsWith(endpoint_path, "/CHANNEL")
         THEN table.line_api
    ELSE IF StartsWith(endpoint_path, "/SQ") \/ StartsWith(endpoint_path, "/SQUARE")
         THEN table.line_api
    ELSE table.line_host

\* the paths _register_default_endpoints registers
RegisteredPaths ==
    {"/enc", "/ACS4", "/RS3", "/RS4", "/ACCT/authfactor/eap/v1", "/acct/lgn/sq/v1",
     "/acct/lgn/secpwless/v1", "/acct/lp/lgn/secpwless/v1",
     "/acct/authfactor/second/pincode/v1", "/acct/authfactor/pwless/manage/v1",
     "/ACCT/authfactor/pwless/v1", "/LF1", "/Q", "/S3", "/C5", "/CA5", "/ECA5", "/CP4",
     "/R2", "/CH3", "/CH4", "/PS4", "/CAPP1", "/COIN4", "/SHOP3", "/SHOPA", "/TSHOP4",
     "/WALLET4", "/SQ1", "/BP1", "/BUDDY3", "/SNS4", "/SA4", "/api/v4p/sa", "/V3",
     "/EXT/groupcall/youtube-api", "/BEACON4", "/IOT1", "/LIFF1", "/F4", "/EIS4", "/EKBS4"}

\* EndpointRegistry.EXCEPTION_TYPES
REGISTRY_EXCEPTION_TYPES ==
    [p \in {"/S3", "/S4", "/SYNC4", "/SYNC3", "/CH3", "/CH4", "/SQ1", "/LIFF1",
            "/api/v3p/rs", "/api/v3/TalkService.do"} |->
        CASE p \in {"/CH3", "/CH4"} -> "ChannelException"
          [] p = "/SQ1" -> "SquareException"
          [] p = "/LIFF1" -> "LiffException"
          [] OTHER -> "TalkException"]

\* Python's None where a string is expected
NoneStr == ""

\* EndpointRegistry.get_exception_type: EXCEPTION_TYPES.get(path)
get_exception_type(path) ==
    IF path \in DOMAIN REGISTRY_EXCEPTION_TYPES THEN REGISTRY_EXCEPTION_TYPES[path]
    ELSE NoneStr

\* EndpointRegistry.is_square_endpoint
is_square_endpoint(path) == path \in {"/SQ1", "/SQLV1"}

\* APIEndpoint(path, endpoint_type, description) with the dataclass defaults
APIEndpoint(path, endpoint_type, description) ==
    [path |-> path, endpoint_type |-> endpoint_type, description |-> description,
     deprecated |-> FALSE, version |-> NoneStr]

\* the descriptors _register_default_endpoints registers, in its order
DefaultEndpoints ==
    <<
       APIEndpoint("/enc", "ENCRYPTION", "Encryption endpoint"),
       APIEndpoint("/ACS4", "AUTHENTICATION", "Age check endpoint"),
       APIEndpoint("/RS3", "AUTHENTICATION", "Auth endpoint"),
       APIEndpoint("/RS4", "AUTHENTICATION", "Auth endpoint V4"),
       APIEndpoint("/ACCT/authfactor/eap/v1", "AUTHENTICATION", "EAP auth endpoint"),
       APIEndpoint("/acct/lgn/sq/v1", "AUTHENTICATION", "Secondary QR login"),
       APIEndpoint("/acct/lgn/secpwless/v1", "AUTHENTICATION", "Secondary passwordless login"),
       APIEndpoint("/acct/lp/lgn/secpwless/v1", "AUTHENTICATION", "Secondary passwordless login permit"),
       APIEndpoint("/acct/authfactor/second/pincode/v1", "AUTHENTICATION", "Secondary auth factor PIN"),
       APIEndpoint("/acct/authfactor/pwless/manage/v1", "AUTHENTICATION", "Passwordless credential management"),
       APIEndpoint("/ACCT/authfactor/pwless/v1", "AUTHENTICATION", "Passwordless primary registration"),
       APIEndpoint("/LF1", "AUTHENTICATION", "Secondary device login verify PIN with E2EE"),
       APIEndpoint("/Q", "AUTHENTICATION", "Secondary device login verify PIN"),
       APIEndpoint("/S3", "MESSAGING", "Normal messaging endpoint"),
       APIEndpoint("/C5", "MESSAGING", "Compact message endpoint"),
       APIEndpoint("/CA5", "MESSAGING", "Compact plain message endpoint"),
       APIEndpoint("/ECA5", "E2EE", "Compact E2EE message endpoint"),
       APIEndpoint("/CP4", "MESSAGING", "Cancel long polling endpoint"),
       APIEndpoint("/R2", "UTILITY", "Connection info endpoint"),
       APIEndpoint("/CH3", "CHANNEL", "Channel endpoint"),
       APIEndpoint("/CH4", "CHANNEL", "Channel endpoint V4"),
       APIEndpoint("/PS4", "CHANNEL", "Personal endpoint V4"),
       APIEndpoint("/CAPP1", "CHANNEL", "Chat app endpoint"),
       APIEndpoint("/COIN4", "COMMERCE", "Coin endpoint"),
       APIEndpoint("/SHOP3", "COMMERCE", "Shop endpoint"),
       APIEndpoint("/SHOPA", "COMMERCE", "Shop auth endpoint"),
       APIEndpoint("/TSHOP4", "COMMERCE", "Unified shop endpoint"),
       APIEndpoint("/WALLET4", "COMMERCE", "Wallet endpoint"),
       APIEndpoint("/SQ1", "SQUARE", "Square endpoint"),
       APIEndpoint("/BP1", "SQUARE", "Square bot endpoint"),
       APIEndpoint("/BUDDY3", "SOCIAL", "Buddy endpoint"),
       [APIEndpoint("/SNS4", "SOCIAL", "SNS adapter endpoint") EXCEPT !.deprecated = TRUE],
       APIEndpoint("/SA4", "SOCIAL", "SNS adapter endpoint"),
       APIEndpoint("/api/v4p/sa", "SOCIAL", "SNS adapter registration"),
       APIEndpoint("/V3", "CALL", "Call endpoint"),
       APIEndpoint("/EXT/groupcall/youtube-api", "EXTERNAL", "VoIP group call YouTube"),
       APIEndpoint("/BEACON4", "UTILITY", "Beacon endpoint"),
       APIEndpoint("/IOT1", "UTILITY", "IoT endpoint"),
       APIEndpoint("/LIFF1", "UTILITY", "LIFF endpoint"),
       APIEndpoint("/F4", "NOTIFICATION", "Notify sleep endpoint"),
       APIEndpoint("/EIS4", "EXTERNAL", "External interlock endpoint"),
       APIEndpoint("/EKBS4", "E2EE", "E2EE key backup endpoint")
    >>

\* a register that keeps the descriptor a path already has
RegisterKeepsFirst(endpoints, descriptor) ==
    IF descriptor.path \in DOMAIN endpoints THEN endpoints
    ELSE Put(endpoints, descriptor.path, descriptor)

\* EndpointRegistry.register: self._endpoints[endpoint.path] = endpoint
register(endpoints, descriptor) == Put(endpoints, descriptor.path, descriptor)

RECURSIVE RegisterFrom(_, _, _)
\* the registry after registering list[i], list[i + 1], ... in turn
RegisterFrom(endpoints, list, i) ==
    IF i > Len(list) THEN endpoints
    ELSE RegisterFrom(register(endpoints, list[i]), list, i + 1)

\* EndpointRegistry.__init__: _endpoints after _register_default_endpoints
DefaultRegistry == RegisterFrom(EmptyDict, DefaultEndpoints, 1)

\* EndpointRegistry.get_endpoint: self._endpoints.get(path)
get_endpoint(endpoints, path) == Get(endpoints, path)

\* EndpointRegistry.get_endpoint(path) is not None
IsRegistered(path) == path \in RegisteredPaths

------------------------------------------------------------------------------
(* config/devices.py and ClientConfiguration.create_with_device *)

\* the values of the DeviceType enum
DeviceTypes ==
    {"DESKTOPWIN", "DESKTOPMAC", "CHROMEOS", "ANDROID", "ANDROIDSECONDARY", "IOS",
     "IOSIPAD", "WATCHOS", "WEAROS", "VISIONOS", "OPENCHAT_PLUS", "CHANNELGW",
     "CHANNELCP", "CLOVAFRIENDS", "BOT", "WAP", "WEB", "BIZWEB", "DUMMYPRIMARY",
     "SQUARE", "FIREFOXOS", "TIZEN", "VIRTUAL", "CHRONO", "WINMETRO", "S40",
     "WINPHONE", "BLACKBERRY", "INTERNAL"}

\* DeviceDetails(device, app_version, system_name) with the dataclass defaults
DeviceDetails(device, app_version, system_name) ==
    [device |-> device, app_version |-> app_version, system_name |-> system_name,
     system_version |-> "12.1.4", system_model |-> "System Product Name",
     user_domain |-> "KORONE-MY-WAIFU", is_secondary |-> FALSE]

\* `a or b` on strings
Or(a, b) == IF a # "" THEN a ELSE b

\* DeviceConfigurationFactory._DEVICE_CONFIGS: the strategy classes, each
\* given as the DeviceDetails it builds when no version is passed
DEVICE_CONFIGS ==
    [d \in {"DESKTOPWIN", "DESKTOPMAC", "CHROMEOS", "ANDROID", "ANDROIDSECONDARY",
            "IOS", "IOSIPAD", "WATCHOS", "WEAROS", "VISIONOS"} |->
        CASE d = "DESKTOPWIN" ->
                [DeviceDetails(d, "9.2.0.3403", "WINDOWS")
                    EXCEPT !.system_version = "10.0.0-NT-x64",
                           !.system_model = "KORONE-MY-WAIFU"]
          [] d = "DESKTOPMAC" ->
                [DeviceDetails(d, "9.2.0.3402", "MAC")
                    EXCEPT !.system_model = "KORONE-MY-WAIFU"]
          [] d = "CHROMEOS" ->
                [DeviceDetails(d, "3.0.3", "Chrome_OS")
                    EXCEPT !.system_version = "1", !.system_model = "Chrome",
                           !.user_domain = "CHROMEOS"]
          [] d = "ANDROID" -> DeviceDetails(d, "13.4.1", "Android OS")
          [] d = "ANDROIDSECONDARY" ->
                [DeviceDetails(d, "13.4.1", "Android OS") EXCEPT !.is_secondary = TRUE]
          [] d = "IOS" -> DeviceDetails(d, "13.3.0", "iOS")
          [] d = "IOSIPAD" ->
                [DeviceDetails(d, "13.3.0", "iOS") EXCEPT !.system_model = "iPad5,1"]
          [] d = "WATCHOS" -> DeviceDetails(d, "13.3.0", "Watch OS")
          [] d = "WEAROS" -> DeviceDetails(d, "13.4.1", "Wear OS")
          [] OTHER ->
                [DeviceDetails(d, "1.0.0", "visionOS")
                    EXCEPT !.system_model = "RealityDevice14,1"]]

\* a strategy's get_device_details(version): app_version = version or <default>
get_device_details(strategy, version) == [strategy EXCEPT !.app_version = Or(version, @)]

\* what a constructor call gives its caller: an object or a raised exception
Returned(value) == [raised |-> "", value |-> value]
Raised(exception) == [raised |-> exception, value |-> "none"]

\* DeviceConfigurationFactory.create_config(device_type) for a DeviceType
\* member: the strategy, or ValueError when the table has none
create_config(device_type) ==
    IF device_type \in DOMAIN DEVICE_CONFIGS THEN Returned(DEVICE_CONFIGS[device_type])
    ELSE Raised("ValueError")

\* CustomDeviceConfig(...).get_device_details()
CustomDeviceDetails(device_type, app_version, system_name, system_version, system_model) ==
    [DeviceDetails(device_type, app_version, system_name)
        EXCEPT !.system_version = system_version,
               !.system_model = Or(system_model, "System Product Name")]

\* ClientConfiguration.create_with_device: the device_details of the
\* configuration it returns, or the exception it raises
create_with_device(device_type, app_version, os_name, os_version, os_model) ==
    LET strategy == IF device_type \in DeviceTypes THEN create_config(device_type)
                    ELSE Raised("ValueError")
    IN  IF strategy.raised = ""
        THEN Returned(get_device_details(strategy.value, app_version))
        ELSE IF ~(app_version # "" /\ os_name # "" /\ os_version # "")
             THEN Raised("ValueError")
        ELSE LET device_enum == IF device_type \in DeviceTypes THEN device_type
                                ELSE "CHROMEOS"
             IN  Returned(CustomDeviceDetails(device_enum, app_version, os_name,
                                              os_version, os_model))

\* DeviceDetails.app_name
app_name(details) ==
    LET name == details.device \o "\t" \o details.app_version \o "\t"
                    \o details.system_name \o "\t" \o details.system_version
    IN  IF details.is_secondary THEN name \o ";SECONDARY" ELSE name

\* DeviceDetails.user_agent
device_user_agent(details) ==
    IF details.device = "CHROMEOS"
    THEN "Mozilla/5.0 (Windows NT 11.0; Win64; x64) AppleWebKit/537.36 "
            \o "(KHTML, like Gecko) Chrome/115.0.0.0 Safari/537.36"
    ELSE IF details.device \in {"DESKTOPWIN", "DESKTOPMAC"}
         THEN "DESKTOP:" \o (IF details.device = "DESKTOPWIN" THEN "WINDOWS" ELSE "MAC")
                \o ":" \o details.system_version \o "(" \o details.app_version \o ")"
    ELSE "Line/" \o details.app_version \o " " \o details.system_model
            \o " " \o details.system_version

\* RequestClient.__init__: the system_type and user_agent a request client
\* built on a client with these device_details puts in its headers
RequestSystemType(details) ==
    details.device \o "\t" \o details.app_version \o "\t"
        \o details.system_name \o "\t" \o details.system_version

RequestUserAgent(details) == "Line/" \o details.app_version

------------------------------------------------------------------------------
(* The config package in use: the environment, the global registry's      *)
(* domain table, a reload running on one thread while other threads read   *)
(* the table, look paths up and build configurations                       *)

\* the environment with the variables `names` set, "" standing for unset
Environment(tag, names) ==
    [n \in EnvNames |-> IF n \in names THEN "https://" \o tag \o "/" \o n ELSE ""]

\* the environments the process may run in
Environments ==
    { Environment("a", {}),
      Environment("a", EnvNames),
      Environment("b", EnvNames),
      Environment("b", {"LINE_HOST_DOMAIN", "LINE_API_DOMAIN"}) }

\* no call into the config package has returned yet
NoResult == [kind |-> "none"]

\* the package after import in the environment `environ`: the global
\* EndpointRegistry holds DomainConfiguration()
ConfigInit(environ) ==
    [environ |-> environ,
     domains |-> DomainConfiguration(environ),
     reload |-> [pc |-> 0, before |-> DomainConfiguration(environ)],
     endpoints |-> DefaultRegistry,
     registered |-> <<>>,
     result |-> NoResult]

\* the paths callers look up
LookupPaths ==
    {"/S3", "/S4", "/CH3", "/SQ1", "/LIFF1", "/BEACON4", "/X9", "/CHX9", "/BEACON9",
     "/SQLV1"}

\* the platforms and field values callers construct configurations with
Platforms == {"ANDROID", "ANDROIDSECONDARY", "CHROMEOS", "DESKTOPWIN", "BOT", "FOO"}
FieldValues == {"", "custom"}

\* os.environ is changed between two reloads
PutEnv(environ) ==
    /\ config.reload.pc = 0
    /\ environ # config.environ
    /\ config' = [config EXCEPT !.environ = environ, !.result = NoResult]
    /\ UNCHANGED <<auth_token, event_handlers, refreshToken, tasks, delivered, call>>

\* the next assignment of reload_from_environment (the first one enters it)
ReloadStep ==
    LET i == config.reload.pc + 1
        before == IF config.reload.pc = 0 THEN config.domains ELSE config.reload.before
        table == ReloadField(config.domains, config.environ, i)
    IN  /\ config' = [config EXCEPT
                !.domains = table,
                !.reload = IF i = Len(DomainFields) THEN [pc |-> 0, before |-> table]
                           ELSE [pc |-> i, before |-> before],
                !.result = NoResult]
        /\ UNCHANGED <<auth_token, event_handlers, refreshToken, tasks, delivered, call>>

\* another thread reads the five fields of registry.domain_config; `before`
\* and `after` are the table the running reload started from and the one
\* it will leave
ReadDomains ==
    /\ config' = [config EXCEPT !.result =
            [kind |-> "read", table |-> config.domains,
             before |-> IF config.reload.pc = 0 THEN config.domains
                        ELSE config.reload.before,
             after |-> IF config.reload.pc = 0 THEN config.domains
                       ELSE ReloadFrom(config.domains, config.environ,
                                       config.reload.pc + 1)]]
    /\ UNCHANGED <<auth_token, event_handlers, refreshToken, tasks, delivered, call>>

\* a caller asks the registry for the domain and the exception type of `path`
Lookup(path) ==
    /\ config' = [config EXCEPT !.result =
            [kind |-> "lookup", path |-> path,
             domain |-> get_domain_for_endpoint(config.domains, path),
             exception_type |-> get_exception_type(path),
             square |-> is_square_endpoint(path)]]
    /\ UNCHANGED <<auth_token, event_handlers, refreshToken, tasks, delivered, call>>

\* the descriptors callers register at run time: new descriptors for a
\* default path and descriptors for a path the defaults do not have
RuntimeEndpoints ==
    { APIEndpoint("/S3", "MESSAGING", "Normal messaging endpoint"),
      APIEndpoint("/S3", "UTILITY", "replaced"),
      [APIEndpoint("/S3", "MESSAGING", "Normal messaging endpoint")
            EXCEPT !.deprecated = TRUE],
      APIEndpoint("/NEW1", "CALL", "first"),
      APIEndpoint("/NEW1", "CALL", "second"),
      [APIEndpoint("/NEW2", "EXTERNAL", "versioned") EXCEPT !.version = "v2"] }

\* the paths callers ask get_endpoint for
EndpointPaths == {"/S3", "/NEW1", "/NEW2", "/CH3", "/X9"}

\* a caller runs registry.register(descriptor); `registered` keeps the
\* descriptors registered since startup, in call order
Register(descriptor) ==
    /\ Len(config.registered) < MaxRegisters
    /\ config' = [config EXCEPT !.endpoints = register(@, descriptor),
                                !.registered = Append(@, descriptor),
                                !.result = NoResult]
    /\ UNCHANGED <<auth_token, event_handlers, refreshToken, tasks, delivered, call>>

\* a caller runs registry.get_endpoint(path)
GetEndpoint(path) ==
    /\ config' = [config EXCEPT !.result =
            [kind |-> "endpoint", path |-> path,
             descriptor |-> get_endpoint(config.endpoints, path)]]
    /\ UNCHANGED <<auth_token, event_handlers, refreshToken, tasks, delivered, call>>

\* a caller runs ClientConfiguration.create_with_device
CreateWithDevice(device_type, app_version, os_name, os_version, os_model) ==
    /\ config' = [config EXCEPT !.result =
            [kind |-> "config", device_type |-> device_type,
             app_version |-> app_version, os_name |-> os_name,
             os_version |-> os_version, os_model |-> os_model,
             outcome |-> create_with_device(device_type, app_version, os_name,
                                            os_version, os_model)]]
    /\ UNCHANGED <<auth_token, event_handlers, refreshToken, tasks, delivered, call>>

------------------------------------------------------------------------------
(* The client after construction, with the calls that run on it *)

\* handler lists a caller has registered for update:authtoken before the
\* calls start
RegisteredLists == {<<>>, <<"sync">>, <<"raising", "sync">>}

InitWith(active, rt, registered) ==
    /\ auth_token = ""
    /\ event_handlers = [ev \in Events |-> IF ev = AuthEvent THEN registered ELSE <<>>]
    /\ refreshToken = rt
    /\ tasks = <<>>
    /\ delivered = <<>>
    /\ call = [c \in active |-> IdleCall]
    /\ config = ConfigInit(Environment("a", {}))

Init == \E rt \in RefreshTokens, registered \in RegisteredLists : InitWith({1}, rt, registered)

\* no call is between request() and its outcome
Quiet == \A c \in DOMAIN call : call[c].pc = "idle"

\* Calls on a client whose caller sets the credential between calls; SpecBus
\* explores set_auth_token and the bus at any moment.
Next ==
    /\   \/ \E t \in Tokens : Quiet /\ SetAuthToken(t)
         \/ \E c \in DOMAIN call, path \in Paths, parse \in ParseModes, headers \in HeaderOverrides :
                 Request(c, path, parse, headers)
         \/ \E c \in DOMAIN call, nt \in NextTokens : FetchReturn(c, nt)
         \/ \E c \in DOMAIN call, timed_out \in BOOLEAN : FetchFail(c, timed_out)
         \/ \E c \in DOMAIN call : ReadFail(c)
         \/ \E c \in DOMAIN call, body \in Bodies : DecodeFail(c, body)
         \/ \E c \in DOMAIN call, record \in DecodedRecords : Decoded(c, record)
         \/ \E c \in DOMAIN call : StorageGet(c)
         \/ \E c \in DOMAIN call, t \in RefreshedTokens : RefreshDone(c, t)
         \/ \E c \in DOMAIN call : Return(c)
    /\ UNCHANGED config

Spec == Init /\ [][Next]_vars

------------------------------------------------------------------------------
(* Two calls running concurrently on one client: each is made once, and    *)
(* their steps interleave at the awaits.                                   *)

\* what the codec decodes for the two calls
PairRecords ==
    { EmptyDict,
      [k \in {"0"} |-> RawValue],
      [k \in {"1"} |-> RawError(MUST_REFRESH)],
      [k \in {"1"} |-> RawError("SOME_ERROR")],
      [k \in {"0", "1"} |-> IF k = "0" THEN RawValue ELSE RawError(MUST_REFRESH)] }

PairParseModes == {"True", "False"}

InitPair == \E rt \in RefreshTokens : InitWith({1, 2}, rt, <<>>)

NextPair ==
    /\   \/ \E c \in DOMAIN call, parse \in PairParseModes :
                 Request(c, "/S3", parse, EmptyDict)
         \/ \E c \in DOMAIN call : FetchReturn(c, "")
         \/ \E c \in DOMAIN call, timed_out \in BOOLEAN : FetchFail(c, timed_out)
         \/ \E c \in DOMAIN call : ReadFail(c)
         \/ \E c \in DOMAIN call : DecodeFail(c, <<0, 1>>)
         \/ \E c \in DOMAIN call, record \in PairRecords : Decoded(c, record)
         \/ \E c \in DOMAIN call : StorageGet(c)
         \/ \E c \in DOMAIN call, t \in RefreshedTokens : RefreshDone(c, t)
    /\ UNCHANGED config

SpecPair == InitPair /\ [][NextPair]_vars

------------------------------------------------------------------------------
(* The bus alone: any caller registers, removes, emits and sets the        *)
(* credential at any moment, and the event loop runs the scheduled         *)
(* coroutine handlers.                                                     *)

\* emit(event, arg) called by any code holding the client
Emit(event, arg) ==
    /\ CanEmit(event)
    /\ delivered' = emit(event_handlers, event, arg, auth_token)
    /\ tasks' = tasks \o Scheduled(delivered')
    /\ event_handlers' = [event_handlers EXCEPT ![event] = EmitLeaves(@, 1)]
    /\ UNCHANGED <<auth_token, refreshToken, call>>

\* the credentials a caller of set_auth_token passes
BusTokens == {"t1", "t2"}

InitBus == InitWith({}, "", <<>>)

NextBus ==
    /\   \/ \E ev \in Events, h \in Handlers : On(ev, h)
         \/ \E ev \in Events, h \in Handlers : Off(ev, h)
         \/ \E ev \in Events : OffAll(ev)
         \/ \E t \in BusTokens : SetAuthToken(t)
         \/ Emit("log", "entry")
         \/ RunTask
    /\ UNCHANGED config

SpecBus == InitBus /\ [][NextBus]_vars

------------------------------------------------------------------------------
(* The bus with handlers that unregister during an emit *)

NextReentrant ==
    /\   \/ \E h \in ReentrantHandlers : On("log", h)
         \/ \E h \in ReentrantHandlers : Off("log", h)
         \/ Emit("log", "entry")
         \/ RunTask
    /\ UNCHANGED config

SpecReentrant == InitBus /\ [][NextReentrant]_vars

------------------------------------------------------------------------------
(* The config package alone *)

InitConfig ==
    /\ InitWith({}, "", <<>>)

NextConfig ==
    \/ \E environ \in Environments : PutEnv(environ)
    \/ ReloadStep
    \/ ReadDomains
    \/ \E path \in LookupPaths : Lookup(path)
    \/ \E device_type \in Platforms, app_version, os_name, os_version, os_model \in FieldValues :
            CreateWithDevice(device_type, app_version, os_name, os_version, os_model)

SpecConfig == InitConfig /\ [][NextConfig]_vars

------------------------------------------------------------------------------
(* The endpoint registry alone: callers register and look up at run time *)

NextRegistry ==
    \/ \E descriptor \in RuntimeEndpoints : Register(descriptor)
    \/ \E path \in EndpointPaths : GetEndpoint(path)

SpecRegistry == InitConfig /\ [][NextRegistry]_vars

------------------------------------------------------------------------------
(* Properties of the request lifecycle *)

\* the error slot (field 1) of the record an attempt decoded
ErrorOf(attempt) == Get(attempt.record, "1")

\* an attempt met a refreshable error: its error slot carries the code
\* MUST_REFRESH_V3_TOKEN and the storage held a refreshToken
Refreshable(attempt) ==
    /\ Truthy(ErrorOf(attempt))
    /\ ErrorOf(attempt).code = "MUST_REFRESH_V3_TOKEN"
    /\ attempt.rt # ""

\* C1: a call never invokes the refresh capability more than once nor the
\* transport more than twice, and a call whose first attempt met a refreshable
\* error ends with exactly one refresh invocation and exactly two transport
\* invocations, whatever the second response is.
C1_OneRefreshTwoFetches ==
    \A c \in DOMAIN call :
        /\ call[c].refreshes <= 1
        /\ call[c].fetches <= 2
        /\ (call[c].pc = "done" /\ Len(call[c].attempts) >= 1
                /\ Refreshable(call[c].attempts[1]))
            => (call[c].refreshes = 1 /\ call[c].fetches = 2)

\* a call is over whose two attempts both met a refreshable error
C1_Witness ==
    \E c \in DOMAIN call :
        /\ call[c].pc = "done"
        /\ Len(call[c].attempts) = 2
        /\ Refreshable(call[c].attempts[1])
        /\ Refreshable(call[c].attempts[2])
        /\ call[c].refreshes = 1 /\ call[c].fetches = 2

\* C2: a call whose retried attempt again met a refreshable error ends by
\* raising RequestError with the error payload, and no call returns normally
\* while its result still holds an error payload.
C2_RetriedRefreshableRaises ==
    \A c \in DOMAIN call :
        /\ (call[c].pc = "done" /\ Len(call[c].attempts) = 2
                /\ Refreshable(call[c].attempts[2]))
            => /\ call[c].outcome.kind = "RequestError"
               /\ call[c].outcome.details = Get(call[c].data, "e")
        /\ (call[c].pc = "done" /\ call[c].outcome.kind = "returned")
            => ~Truthy(Get(call[c].data, "e"))

\* C3: in every parse mode a call whose decoded record holds only field 0,
\* truthy or falsy, returns that (possibly renamed) value without raising,
\* after one transport invocation and no refresh.
C3_Field0AloneResolves ==
    \A c \in DOMAIN call :
        (call[c].pc = "done" /\ Len(call[c].attempts) = 1
            /\ DOMAIN call[c].attempts[1].record = {"0"})
        => /\ call[c].outcome.kind = "returned"
           /\ call[c].outcome.value.tag = call[c].attempts[1].record["0"].tag
           /\ call[c].refreshes = 0
           /\ call[c].fetches = 1

\* the last attempt of a call that reached the end of classification
LastAttempt(cr) == cr.attempts[Len(cr.attempts)]

\* a call is over whose last response carried an error that is not refreshable
EndedOnPlainError(cr) ==
    /\ cr.pc = "done"
    /\ Len(cr.attempts) >= 1
    /\ Truthy(ErrorOf(LastAttempt(cr)))
    /\ ~Refreshable(LastAttempt(cr))

\* such a call raised RequestError with the error payload and a message
\* naming the method and the path
RaisedWithPayload(cr) ==
    /\ cr.outcome.kind = "RequestError"
    /\ cr.outcome.details.tag = "err"
    /\ cr.outcome.details.code = ErrorOf(LastAttempt(cr)).code
    /\ cr.outcome.message.method_name = "getProfile"
    /\ cr.outcome.message.path = cr.path
    /\ cr.outcome.message.payload = cr.outcome.details

\* C4 as stated: a response carrying an error that is not refreshable makes
\* the call raise RequestError with the error payload and a message naming
\* the method and the path, after zero refresh invocations and exactly one
\* transport invocation.
C4_PlainErrorOneFetchNoRefresh ==
    \A c \in DOMAIN call :
        EndedOnPlainError(call[c])
        => /\ RaisedWithPayload(call[c])
           /\ call[c].refreshes = 0
           /\ call[c].fetches = 1

\* C4, amended: a response carrying an error that is not refreshable makes
\* the call raise RequestError with the error payload and a message naming
\* the method and the path; when it is the first attempt's response the
\* refresh capability was invoked zero times and the transport once, when it
\* is the retry's response the refresh capability was invoked once and the
\* transport twice.
C4_PlainErrorRaises ==
    \A c \in DOMAIN call :
        EndedOnPlainError(call[c])
        => /\ RaisedWithPayload(call[c])
           /\ Len(call[c].attempts) = 1 => (call[c].refreshes = 0 /\ call[c].fetches = 1)
           /\ Len(call[c].attempts) = 2 => (call[c].refreshes = 1 /\ call[c].fetches = 2)
           /\ Len(call[c].attempts) <= 2

\* a first response with the refresh code met an empty storage and raised
C4_Witness ==
    \E c \in DOMAIN call :
        /\ EndedOnPlainError(call[c])
        /\ Len(call[c].attempts) = 1
        /\ ErrorOf(LastAttempt(call[c])).code = "MUST_REFRESH_V3_TOKEN"
        /\ call[c].outcome.kind = "RequestError"
        /\ call[c].parse = "False"

\* the operations a call has performed, in order
Ops(cr) == [i \in 1..Len(cr.trace) |-> cr.trace[i].op]

\* a call is over because client.fetch raised
EndedOnFetchFailure(cr) ==
    /\ cr.pc = "done"
    /\ Len(cr.trace) >= 3
    /\ cr.trace[Len(cr.trace) - 1].op = "fetch_fail"

\* the error type matches the failure, and nothing ran between the call of
\* client.fetch and the raise
FetchFailureSurfaced(cr) ==
    LET n == Len(cr.trace)
    IN  /\ cr.outcome.kind = IF cr.trace[n - 1].arg = "timeout" THEN "RequestTimeout"
                             ELSE "RequestError"
        /\ cr.trace[n - 2].op = "fetch"
        /\ cr.trace[n].op = "raise"

\* C5 as stated: when client.fetch fails the call ends with RequestTimeout
\* for a timeout and RequestError otherwise, the transport was invoked
\* exactly once, the refresh capability never, and nothing was decoded or
\* classified.
C5_FetchFailureOneFetch ==
    \A c \in DOMAIN call :
        EndedOnFetchFailure(call[c])
        => /\ FetchFailureSurfaced(call[c])
           /\ call[c].fetches = 1
           /\ call[c].refreshes = 0
           /\ \A i \in 1..Len(call[c].trace) :
                call[c].trace[i].op \notin {"read_thrift", "classify"}

\* C5, amended: when client.fetch fails the call ends with RequestTimeout
\* for a timeout and RequestError otherwise, and the failed attempt is not
\* retried, decoded or classified; a failure of the first attempt leaves one
\* transport invocation, no refresh and nothing decoded, a failure of the
\* retry leaves two transport invocations and one refresh.
C5_FetchFailureTerminal ==
    \A c \in DOMAIN call :
        EndedOnFetchFailure(call[c])
        => /\ FetchFailureSurfaced(call[c])
           /\ ~call[c].is_re_request =>
                /\ call[c].fetches = 1
                /\ call[c].refreshes = 0
                /\ \A i \in 1..Len(call[c].trace) :
                        call[c].trace[i].op \notin {"read_thrift", "classify"}
           /\ call[c].is_re_request => (call[c].fetches = 2 /\ call[c].refreshes = 1)

\* the first attempt's fetch timed out
C5_Witness ==
    \E c \in DOMAIN call :
        /\ EndedOnFetchFailure(call[c])
        /\ ~call[c].is_re_request
        /\ call[c].outcome.kind = "RequestTimeout"

\* the value of a hexadecimal digit
HexValue(ch) == CHOOSE d \in 0..15 : HexDigits[d + 1] = ch

\* `hex` renders exactly the first min(Len(body), 100) bytes of `body`, two
\* digits a byte, one space between neighbours
RendersFirstHundred(hex, body) ==
    LET n == IF Len(body) < 100 THEN Len(body) ELSE 100
    IN  /\ Len(hex) = IF n = 0 THEN 0 ELSE 3 * n - 1
        /\ \A i \in 1..n :
              16 * HexValue(hex[3 * i - 2]) + HexValue(hex[3 * i - 1]) = body[i]
        /\ \A i \in 1..(n - 1) : hex[3 * i] = " "

\* a call is over because read_thrift raised
EndedOnDecodeFailure(cr) ==
    /\ cr.pc = "done"
    /\ Len(cr.trace) >= 2
    /\ cr.trace[Len(cr.trace) - 1] = TraceEntry("read_thrift", "raise")

\* C6: when decoding the body fails the call raises RequestError at once,
\* with no retry and no refresh after the failure, and the diagnostic renders
\* in hex exactly the first min(len(body), 100) bytes, separated by spaces.
C6_DecodeFailureDiagnostic ==
    \A c \in DOMAIN call :
        EndedOnDecodeFailure(call[c])
        => /\ call[c].outcome.kind = "RequestError"
           /\ call[c].trace[Len(call[c].trace)].op = "raise"
           /\ RendersFirstHundred(call[c].outcome.message.hex, call[c].body)
           /\ ~call[c].is_re_request => (call[c].fetches = 1 /\ call[c].refreshes = 0)
           /\ call[c].is_re_request => (call[c].fetches = 2 /\ call[c].refreshes = 1)

\* a body longer than 100 bytes failed to decode
C6_Witness ==
    \E c \in DOMAIN call :
        /\ EndedOnDecodeFailure(call[c])
        /\ Len(call[c].body) > 100
        /\ Len(call[c].outcome.message.hex) = 299

\* C7: in every attempt whose response carries a non-empty
\* x-line-next-access header, update:authtoken is emitted with that value
\* right after client.fetch returns: before the body is read, decoded and
\* classified, hence also in attempts that fail later.
C7_NextTokenEmittedFirst ==
    \A c \in DOMAIN call :
        \A i \in 1..Len(call[c].trace) :
            (call[c].trace[i].op = "fetch_return" /\ call[c].trace[i].arg # "")
            => /\ i + 2 <= Len(call[c].trace)
               /\ call[c].trace[i + 1] = TraceEntry("emit", call[c].trace[i].arg)
               /\ call[c].trace[i + 2].op = "read_body"
               /\ \A j \in 1..Len(call[c].trace) :
                    (j > i /\ call[c].trace[j].op \in {"read_body", "read_thrift", "classify"})
                    => j > i + 1

\* an attempt whose response announced a token failed at decoding, after a
\* registered handler had received the token
C7_Witness ==
    \E c \in DOMAIN call :
        /\ EndedOnDecodeFailure(call[c])
        /\ call[c].next_token = "t3"
        /\ event_handlers["update:authtoken"] # <<>>
        /\ \E i \in 1..Len(call[c].trace) : call[c].trace[i] = TraceEntry("emit", "t3")

\* C8: once an attempt has processed a response carrying a next-access-token
\* header, the client's credential is the header's value, and the next header
\* composition on the client sends that value as the credential header.
C8_CredentialFollowsHeader ==
    \A c \in DOMAIN call :
        (call[c].pc = "reading" /\ call[c].next_token # "")
        => /\ auth_token = call[c].next_token
           /\ "x-line-access" \in DOMAIN get_header("POST", auth_token)
           /\ get_header("POST", auth_token)["x-line-access"] = call[c].next_token

\* the position of the k-th call of client.fetch in a call's history, 0 when
\* there is none
FetchIndex(cr, k) ==
    LET at == {i \in 1..Len(cr.trace) :
                 /\ cr.trace[i].op = "fetch"
                 /\ Cardinality({j \in 1..i : cr.trace[j].op = "fetch"}) = k}
    IN  IF at = {} THEN 0 ELSE CHOOSE i \in at : TRUE

\* the last step was an emit of update:authtoken
AuthTokenEmitted ==
    /\ delivered # <<>>
    /\ delivered[1].kind = "emit"
    /\ delivered[1].event = AuthEvent

\* C9: after set_auth_token(t) the credential is t, the bus has emitted
\* update:authtoken exactly once with argument t, every registered handler was
\* called or scheduled once, in registration order, and every handler that
\* emit ran received t and saw auth_token = t.
C9_SetAuthTokenAssignsThenEmits ==
    AuthTokenEmitted =>
        LET t == delivered[1].arg
            handled == SelectSeq(delivered, LAMBDA r : r.kind \in {"invoke", "schedule"})
        IN  /\ auth_token = t
            /\ Cardinality({i \in DOMAIN delivered : delivered[i].kind = "emit"}) = 1
            /\ [i \in DOMAIN handled |-> handled[i].handler] = event_handlers[AuthEvent]
            /\ \A i \in DOMAIN delivered :
                    delivered[i].kind = "invoke"
                        => /\ delivered[i].event = AuthEvent
                           /\ delivered[i].arg = t
                           /\ delivered[i].seen = t

\* set_auth_token("t2") has just run on a client with two handlers that emit
\* ran inline, one of them raising
C9_Witness ==
    /\ AuthTokenEmitted
    /\ auth_token = "t2"
    /\ \E i, j \in DOMAIN delivered :
            /\ delivered[i].kind = "invoke" /\ delivered[i].handler = "raising"
            /\ delivered[j].kind = "invoke" /\ delivered[j].handler = "sync"

\* the first position after `from` where a call's history holds `op`, 0 when
\* there is none or `from` is 0
NextOp(cr, from, op) ==
    LET at == {i \in (from + 1)..Len(cr.trace) : cr.trace[i].op = op}
    IN  IF from = 0 \/ at = {} THEN 0 ELSE CHOOSE i \in at : \A j \in at : i <= j

\* C10: a call never has more than one transport invocation in flight, and
\* its second transport invocation starts only after the first has returned,
\* its response has been decoded and classified, and the refresh capability
\* has been invoked and has completed, in that order.
C10_OneRoundTripAtATime ==
    \A c \in DOMAIN call :
        /\ call[c].inflight <= 1
        /\ FetchIndex(call[c], 2) # 0
            => LET returned == NextOp(call[c], FetchIndex(call[c], 1), "fetch_return")
                   decoded == NextOp(call[c], returned, "read_thrift")
                   classified == NextOp(call[c], decoded, "classify")
                   refresh == NextOp(call[c], classified, "try_refresh_token")
                   refreshed == NextOp(call[c], refresh, "refresh_done")
               IN  /\ refreshed # 0
                   /\ refreshed < FetchIndex(call[c], 2)

\* the retry's transport invocation is in flight
C10_Witness ==
    \E c \in DOMAIN call :
        /\ call[c].pc = "fetching"
        /\ call[c].is_re_request
        /\ call[c].inflight = 1
        /\ FetchIndex(call[c], 2) # 0

------------------------------------------------------------------------------
(* The retry's request and the headers *)

\* the header a request's credential travels in
CredentialHeader == "x-line-access"

\* the parse modes a call's attempts were classified with, in order
ClassifiedWith(cr) ==
    LET hits == SelectSeq(cr.trace, LAMBDA e : e.op = "classify")
    IN  [i \in DOMAIN hits |-> hits[i].arg]

\* what the two dicts agree on outside the key `k`
SameExcept(a, b, k) ==
    /\ DOMAIN a \ {k} = DOMAIN b \ {k}
    /\ \A x \in DOMAIN a \ {k} : a[x] = b[x]

Methods == {"POST", "GET"}

\* the options of the transport invocation a call is waiting for
Sent(cr) == cr.requests[Len(cr.requests)]

\* C17: get_header holds the nine fixed keys with x-lhm equal to its method
\* argument, and x-line-access exactly when the credential is non-empty, with
\* the credential as its value; and the headers of every attempt waiting for
\* the transport were composed from the client's credential as it is for
\* that attempt.
C17_HeadersFollowCredential ==
    /\ \A m \in Methods, t \in {""} \cup Tokens \cup RefreshedTokens :
            LET h == get_header(m, t)
            IN  /\ DOMAIN h = FixedHeaderKeys \cup (IF t # "" THEN {CredentialHeader} ELSE {})
                /\ h["x-lhm"] = m
                /\ t # "" => h[CredentialHeader] = t
    /\ \A c \in DOMAIN call :
            call[c].pc = "fetching" =>
                LET sent == Sent(call[c]).headers
                IN  /\ FixedHeaderKeys \subseteq DOMAIN sent
                    /\ sent["x-lhm"] = "POST"
                    /\ CredentialHeader \in DOMAIN sent <=> auth_token # ""
                    /\ auth_token # "" => sent[CredentialHeader] = auth_token

\* a retry waits for the transport with the credential the refresh set,
\* after a first attempt sent with the credential the caller had set
C17_Witness ==
    \E c \in DOMAIN call :
        /\ call[c].pc = "fetching"
        /\ Len(call[c].requests) = 2
        /\ auth_token = "t2"
        /\ CredentialHeader \in DOMAIN call[c].requests[1].headers
        /\ call[c].requests[1].headers[CredentialHeader] = "t1"
        /\ call[c].requests[2].headers[CredentialHeader] = "t2"

\* C18: the headers of an attempt waiting for the transport hold the keys
\* of the composed headers and of the caller's overrides, each override key
\* with the override's value and every other key with its composed value.
C18_OverridesWin ==
    \A c \in DOMAIN call :
        call[c].pc = "fetching" =>
            LET sent == Sent(call[c]).headers
                composed == get_header("POST", auth_token)
                overrides == call[c].append_headers
            IN  /\ DOMAIN sent = DOMAIN composed \cup DOMAIN overrides
                /\ \A k \in DOMAIN overrides : sent[k] = overrides[k]
                /\ \A k \in DOMAIN composed \ DOMAIN overrides : sent[k] = composed[k]

\* an attempt waits for the transport with an override that replaced a
\* composed key, an override that added a key, and the credential
C18_Witness ==
    \E c \in DOMAIN call :
        /\ call[c].pc = "fetching"
        /\ call[c].append_headers # EmptyDict
        /\ {"x-extra", CredentialHeader} \subseteq DOMAIN Sent(call[c]).headers
        /\ Sent(call[c]).headers["x-lal"] = "en_US"
        /\ Sent(call[c]).headers["x-extra"] = "1"
        /\ Sent(call[c]).headers["x-lpv"] = "1"
        /\ Sent(call[c]).headers[CredentialHeader] = "t1"

\* the error kind of a path: the mapped one, or the generic TalkException
KindFor(path) ==
    CASE path \in {"/CH3", "/CH4"} -> "ChannelException"
      [] path = "/SQ1" -> "SquareException"
      [] path = "/LIFF1" -> "LiffException"
      [] OTHER -> "TalkException"

\* field 1 of a record under the error kind of the call's path
ErrorUnderKind(cr, record) ==
    [Get(record, "1") EXCEPT !.schema = KindFor(cr.path)]

------------------------------------------------------------------------------
(* Properties of the config package *)

\* C12: a lookup of a path that is not registered returns the line_host
\* domain, and a lookup of a path that has no exception type mapped returns
\* the generic TalkException.
C12_UnknownPathDefaults ==
    config.result.kind = "lookup" =>
        /\ ~IsRegistered(config.result.path)
                => config.result.domain = config.domains.line_host
        /\ config.result.path \notin DOMAIN REGISTRY_EXCEPTION_TYPES
                => config.result.exception_type = "TalkException"

\* C16: what a thread reads from the domain table is the table some reload
\* started from or the table a reload leaves, never a mix of the two.
C16_ReloadAtomic ==
    config.result.kind = "read" =>
        config.result.table \in {config.result.before, config.result.after}

\* the caller of create_with_device passed all four of app_version, os_name,
\* os_version and os_model
AllFourGiven(r) ==
    r.app_version # "" /\ r.os_name # "" /\ r.os_version # "" /\ r.os_model # ""

\* C19: create_with_device for a platform without an entry in the defaults
\* table raises unless all four fields are passed, and for a platform with an
\* entry it returns that platform's details with the passed version, or the
\* platform's default version when none is passed.
C19_UnsupportedNeedsAllFour ==
    config.result.kind = "config" =>
        LET r == config.result
        IN  IF r.device_type \in DOMAIN DEVICE_CONFIGS
            THEN /\ r.outcome.raised = ""
                 /\ r.outcome.value.app_version =
                        Or(r.app_version, DEVICE_CONFIGS[r.device_type].app_version)
            ELSE r.outcome.raised # "" <=> ~AllFourGiven(r)

\* the text of the url _request_core passes to client.fetch
UrlText(url) == url[1] \o url[2] \o url[3]

\* C13: every request handed to the transport has the url made of the
\* domain get_domain_for_endpoint selects for the call's path followed by the
\* path, and the method POST.
C13_UrlFromRouting ==
    \A c \in DOMAIN call :
        \A i \in DOMAIN call[c].requests :
            /\ UrlText(call[c].requests[i].url)
                    = get_domain_for_endpoint(config.domains, call[c].path) \o call[c].path
            /\ call[c].requests[i].method = "POST"

------------------------------------------------------------------------------
(* Properties of the event bus *)

\* the handlers an emit called or scheduled, in the order it did
HandledBy(records) ==
    LET hits == SelectSeq(records, LAMBDA r : r.kind \in {"invoke", "schedule"})
    IN  [i \in DOMAIN hits |-> hits[i].handler]

\* `new` is `old` with the element at one position holding x taken out
OneRemoved(old, new, x) ==
    \E i \in DOMAIN old :
        /\ old[i] = x
        /\ new = SubSeq(old, 1, i - 1) \o SubSeq(old, i + 1, Len(old))

\* C14: in every step, an emit of an event calls or schedules exactly the
\* handlers registered for that event, once per registration and in
\* registration order, and touches no handler through another event;
\* on(event, h) appends one registration; off(event, h) takes out one
\* registration of h, or changes nothing when h is not registered (also when
\* the event has no handlers); off(event) leaves the event without handlers;
\* and none of them changes another event's handlers.
C14_EmitFollowsRegistrations ==
    [][ /\ (delivered' # <<>> /\ delivered'[1].kind = "emit")
            => /\ HandledBy(delivered') = event_handlers[delivered'[1].event]
               /\ \A i \in DOMAIN delivered' : delivered'[i].event = delivered'[1].event
               /\ event_handlers' = event_handlers
        /\ \A ev \in Events, h \in Handlers :
            /\ On(ev, h) => event_handlers'[ev] = event_handlers[ev] \o <<h>>
            /\ Off(ev, h)
                => IF \E i \in DOMAIN event_handlers[ev] : event_handlers[ev][i] = h
                   THEN OneRemoved(event_handlers[ev], event_handlers'[ev], h)
                   ELSE event_handlers' = event_handlers
            /\ OffAll(ev) => event_handlers'[ev] = <<>>
            /\ (On(ev, h) \/ Off(ev, h) \/ OffAll(ev))
                => \A other \in Events \ {ev} :
                        event_handlers'[other] = event_handlers[other]
      ]_vars

\* an emit of "log" has just called a handler and scheduled another while
\* update:authtoken has a handler of its own
C14_Witness ==
    /\ delivered # <<>>
    /\ delivered[1].kind = "emit"
    /\ delivered[1].event = "log"
    /\ HandledBy(delivered) = <<"sync", "coro">>
    /\ event_handlers[AuthEvent] = <<"raising">>

\* C15: when an emit reaches a handler that raises, the emit records one
\* error log for it, goes on to every handler registered after it, and ends
\* without anything but calls, schedulings and error logs.
C15_RaisingHandlerIsolated ==
    (delivered # <<>> /\ delivered[1].kind = "emit") =>
        LET registered == event_handlers[delivered[1].event]
            raising == {k \in DOMAIN registered : registered[k] = "raising"}
            logs == {i \in DOMAIN delivered : delivered[i].kind = "error_log"}
        IN  /\ \A k \in raising : \A j \in (k + 1)..Len(registered) :
                    /\ Len(HandledBy(delivered)) >= j
                    /\ HandledBy(delivered)[j] = registered[j]
            /\ Cardinality(logs) = Cardinality(raising)
            /\ \A i \in logs : /\ delivered[i - 1].kind = "invoke"
                               /\ delivered[i - 1].handler = "raising"
            /\ \A i \in DOMAIN delivered :
                    delivered[i].kind \in {"emit", "invoke", "schedule", "error_log"}

\* an emit has just gone through a raising handler and then a coroutine
\* handler registered after it
C15_Witness ==
    /\ delivered # <<>>
    /\ delivered[1].kind = "emit"
    /\ event_handlers[delivered[1].event] = <<"raising", "coro">>
    /\ \E i \in DOMAIN delivered : delivered[i].kind = "error_log"
    /\ delivered[Len(delivered)].kind = "schedule"

------------------------------------------------------------------------------
(* reload_from_environment, field by field *)

\* C30: a reload leaves every domain at the value of its own environment
\* variable when that variable is set and at the value it had when the
\* reload started when it is not; no other variable and no field default
\* takes part.
C30_ReloadFollowsOwnVariable ==
    [][(ReloadStep /\ config'.reload.pc = 0) =>
            \A i \in DOMAIN DomainFields :
                LET f == DomainFields[i]
                    own == config.environ[EnvName(f)]
                IN  config'.domains[f] = IF own # "" THEN own
                                         ELSE config.reload.before[f]]_vars

\* a reload has ended in an environment that sets two of the variables, on a
\* table whose other domains came from an earlier environment
C30_Witness ==
    /\ config.reload.pc = 0
    /\ config.environ = Environment("b", {"LINE_HOST_DOMAIN", "LINE_API_DOMAIN"})
    /\ config.domains.line_host = "https://b/LINE_HOST_DOMAIN"
    /\ config.domains.line_api = "https://b/LINE_API_DOMAIN"
    /\ config.domains.line_obs = "https://a/LINE_OBS_DOMAIN"
    /\ config.domains.line_access = "https://a/LINE_ACCESS_DOMAIN"

------------------------------------------------------------------------------
(* The identity headers of a request client built on a configuration *)

\* the configuration create_with_device has just returned, if it returned one
BuiltIdentity == config.result.kind = "config" /\ config.result.outcome.raised = ""

\* C29: the x-line-application and user-agent headers of a request client
\* built on an identity are the identity's app_name, secondary marker
\* included, and its user_agent.
C29_HeadersAreIdentityStrings ==
    BuiltIdentity =>
        LET details == config.result.outcome.value
            headers == [get_header("POST", "") EXCEPT
                            !["x-line-application"] = RequestSystemType(details),
                            !["user-agent"] = RequestUserAgent(details)]
        IN  /\ headers["x-line-application"] = app_name(details)
            /\ headers["user-agent"] = device_user_agent(details)

------------------------------------------------------------------------------
(* The endpoint registry *)

RECURSIVE LastFor(_, _, _)
\* the last of list[1..i] whose path is `path`, None when there is none
LastFor(list, path, i) ==
    IF i = 0 THEN None
    ELSE IF list[i].path = path THEN list[i]
    ELSE LastFor(list, path, i - 1)

\* the descriptor most recently registered for `path`, startup included
LastRegistered(path) ==
    LET list == DefaultEndpoints \o config.registered
    IN  LastFor(list, path, Len(list))

\* the registry holds one descriptor per path, and every lookup gives the
\* one registered last
RegistryFollowsRegisters ==
    /\ \A p \in DOMAIN config.endpoints : config.endpoints[p].path = p
    /\ \A path \in EndpointPaths \cup RegisteredPaths :
            get_endpoint(config.endpoints, path) = LastRegistered(path)
    /\ config.result.kind = "endpoint" =>
            config.result.descriptor = LastRegistered(config.result.path)

\* a register call changes its own path only, and nothing when the path
\* already has that descriptor
RegisterFrame ==
    \A descriptor \in RuntimeEndpoints :
        Register(descriptor) =>
            /\ \A path \in (DOMAIN config.endpoints \cup DOMAIN config'.endpoints)
                                \ {descriptor.path} :
                    get_endpoint(config'.endpoints, path)
                        = get_endpoint(config.endpoints, path)
            /\ get_endpoint(config.endpoints, descriptor.path) = descriptor =>
                    config'.endpoints = config.endpoints

\* C25: after any registers the registry holds one descriptor per path and
\* get_endpoint gives the one registered last for the path; a register
\* leaves every other path's descriptor alone, and registering a descriptor
\* again leaves the registry as it was.
C25_LastRegisterWins == []RegistryFollowsRegisters /\ [][RegisterFrame]_vars

\* a default path has been given a new descriptor and then the same
\* descriptor again, a new path two descriptors, and the new path is looked up
C25_Witness ==
    /\ Len(config.registered) = 3
    /\ config.registered[1].path = "/NEW1"
    /\ config.registered[2].path = "/NEW1"
    /\ config.registered[3] = config.registered[2]
    /\ config.registered[1] # config.registered[2]
    /\ config.result.kind = "endpoint"
    /\ config.result.path = "/NEW1"
    /\ config.result.descriptor = config.registered[3]

------------------------------------------------------------------------------
(* Classification of a decoded record *)

\* the call has ended on the classification of its last decoded record
EndedOnClassification(cr) ==
    /\ cr.pc = "done"
    /\ Len(cr.attempts) >= 1
    /\ cr.outcome.stage \in {"error", "has_error", "return"}

\* C21: a call in parse=False mode never calls the codec's rename
\* capability; what it returns is the raw field 0 and the error payload it
\* raises with is the raw field 1 under the error kind of its path.
C21_FalseModeNeverRenames ==
    \A c \in DOMAIN call :
        call[c].parse = "False" =>
            /\ \A i \in DOMAIN call[c].trace :
                    call[c].trace[i].op \notin {"rename_thrift", "rename_data"}
            /\ (EndedOnClassification(call[c]) /\ call[c].outcome.stage = "return")
                => call[c].outcome.value = Get(LastAttempt(call[c]).record, "0")
            /\ (EndedOnClassification(call[c]) /\ call[c].outcome.stage = "error")
                => call[c].outcome.details
                        = ErrorUnderKind(call[c], LastAttempt(call[c]).record)

\* the record carries an error as the classification is described: field 1
\* is populated, or the record is not empty and has no field 0
CarriesError(record) ==
    \/ Truthy(Get(record, "1"))
    \/ (DOMAIN record # {} /\ "0" \notin DOMAIN record)

\* C22: a call that ends on the classification of a record raises
\* RequestError exactly when the record carries an error, and a first
\* attempt is retried only on a record that carries one; a record with both
\* fields populated never makes the call return.
C22_ErrorExactlyWhenCarried ==
    \A c \in DOMAIN call :
        /\ EndedOnClassification(call[c]) =>
                /\ (call[c].outcome.kind = "RequestError")
                        <=> CarriesError(LastAttempt(call[c]).record)
                /\ (Truthy(Get(LastAttempt(call[c]).record, "0"))
                        /\ Truthy(Get(LastAttempt(call[c]).record, "1")))
                    => call[c].outcome.kind = "RequestError"
        /\ call[c].refreshes >= 1 => CarriesError(call[c].attempts[1].record)

------------------------------------------------------------------------------
(* The log events of an attempt *)

\* the event name of the last log entry before position i of the trace, ""
\* when there is none
LastLogBefore(cr, i) ==
    LET at == {j \in 1..(i - 1) : cr.trace[j].op = "log"}
    IN  IF at = {} THEN ""
        ELSE cr.trace[CHOOSE j \in at : \A k \in at : k <= j].arg

\* the log event that comes before each log event
LogBefore(name) ==
    CASE name = "request" -> {"writeThrift"}
      [] name = "response" -> {"request"}
      [] name = "readThrift" -> {"response"}
      [] OTHER -> {"", "readThrift"}

\* C28: the log events of a call come in the order writeThrift, request,
\* response, readThrift, attempt after attempt: writeThrift just before the
\* encode, request just before the send, response after the body is read
\* and before the decode, readThrift after the classification; a transport
\* or body-read failure is raised with request as the last event, a decode
\* failure with response, and an application error is raised and the refresh
\* invoked with readThrift as the last event.
C28_LogOrder ==
    \A c \in DOMAIN call :
        LET cr == call[c]
        IN  \A i \in DOMAIN cr.trace :
                LET entry == cr.trace[i]
                    last == LastLogBefore(cr, i)
                IN  /\ entry.op = "log" => last \in LogBefore(entry.arg)
                    /\ (entry.op = "log" /\ entry.arg = "writeThrift")
                        => (i < Len(cr.trace) /\ cr.trace[i + 1].op = "write_thrift")
                    /\ (entry.op = "log" /\ entry.arg = "request")
                        => (i < Len(cr.trace) /\ cr.trace[i + 1].op = "fetch")
                    /\ (entry.op = "log" /\ entry.arg = "response")
                        => (/\ cr.trace[i - 1].op = "read_body"
                            /\ i < Len(cr.trace) /\ cr.trace[i + 1].op = "read_thrift")
                    /\ (entry.op = "log" /\ entry.arg = "readThrift")
                        => \E j \in 1..(i - 1) :
                                /\ cr.trace[j].op = "classify"
                                /\ \A k \in (j + 1)..(i - 1) :
                                        cr.trace[k].op \in {"rename_thrift", "rename_data"}
                    /\ entry.op = "try_refresh_token" => last = "readThrift"
                    /\ entry.op = "raise" =>
                            last = CASE cr.outcome.stage \in {"fetch", "body"} -> "request"
                                     [] cr.outcome.stage = "decode" -> "response"
                                     [] OTHER -> "readThrift"

\* a call is over whose first attempt logged all four events and was
\* retried, and whose retry was lost at the body read
C28_Witness ==
    \E c \in DOMAIN call :
        /\ call[c].pc = "done"
        /\ call[c].outcome.stage = "body"
        /\ call[c].fetches = 2
        /\ SelectSeq(Ops(call[c]), LAMBDA op : op = "log") = <<"log", "log", "log", "log", "log", "log">>
        /\ LastLogBefore(call[c], Len(call[c].trace)) = "request"

------------------------------------------------------------------------------
(* Handlers that call off() during an emit *)

\* how many times the records of an emit call or schedule `handler`
Invocations(records, handler) ==
    Cardinality({i \in DOMAIN records :
                    /\ records[i].kind \in {"invoke", "schedule"}
                    /\ records[i].handler = handler})

\* how many registrations of `handler` the list holds
Registrations(handlers, handler) ==
    Cardinality({k \in DOMAIN handlers : handlers[k] = handler})

\* C26: an emit during which handlers call off() still calls every handler
\* that was registered when it began and that no off() of this emit named,
\* once for each of its registrations.
C26_OffDuringEmitSkipsNobody ==
    [][Emit("log", "entry") =>
            LET began == event_handlers["log"]
                named == {Removes(delivered'[i].handler) : i \in DOMAIN delivered'}
            IN  \A h \in ReentrantHandlers \ named :
                    Invocations(delivered', h) = Registrations(began, h)]_vars

------------------------------------------------------------------------------
(* Calls compared with one another *)

\* the arguments of the call
CallArguments(cr) == <<cr.path, cr.parse, cr.append_headers, cr.timeout>>

\* what the transport, the codec and the refresh capability gave the call,
\* in order: the trace entries of their returns and failures
InputEvents(cr) ==
    SelectSeq(cr.trace, LAMBDA e : e.op \in {"fetch_return", "fetch_fail", "read_fail",
                                             "read_thrift", "refresh_done"})

\* the records the codec decoded for the call, attempt by attempt
DecodedFor(cr) == [i \in DOMAIN cr.attempts |-> cr.attempts[i].record]

\* the headers the call composed, attempt by attempt: they carry the
\* credential the client held at that moment
ComposedHeaders(cr) == [i \in DOMAIN cr.requests |-> cr.requests[i].headers]

\* two sequences agree wherever both have an element
Agree(s, t) == \A i \in DOMAIN s \cap DOMAIN t : s[i] = t[i]

\* the two calls were made with the same arguments and credential, and the
\* capabilities answered both the same way for as long as both asked
SameInputs(a, b) ==
    /\ CallArguments(a) = CallArguments(b)
    /\ Agree(InputEvents(a), InputEvents(b))
    /\ Agree(DecodedFor(a), DecodedFor(b))
    /\ Agree(ComposedHeaders(a), ComposedHeaders(b))
    /\ a.body = b.body

FirstAttemptRefreshable(cr) ==
    /\ Len(cr.attempts) >= 1
    /\ Truthy(ErrorOf(cr.attempts[1]))
    /\ ErrorOf(cr.attempts[1]).code = MUST_REFRESH
    /\ refreshToken # ""

\* the refresh invocations of all calls together
RECURSIVE TotalRefreshes(_)
TotalRefreshes(calls) ==
    IF calls = {} THEN 0
    ELSE LET c == CHOOSE x \in calls : TRUE
         IN  call[c].refreshes + TotalRefreshes(calls \ {c})

\* each call keeps to one refresh and two transport invocations, and every
\* call whose first attempt was refreshable has made its own refresh
RefreshesNotCoalesced ==
    /\ \A c \in DOMAIN call : call[c].refreshes <= 1 /\ call[c].fetches <= 2
    /\ TotalRefreshes(DOMAIN call)
            = Cardinality({c \in DOMAIN call : FirstAttemptRefreshable(call[c])})

\* a step of one call leaves the locals of every other call as they are
OneCallPerStep ==
    \A c \in DOMAIN call :
        call'[c] # call[c] => \A d \in DOMAIN call \ {c} : call'[d] = call[d]

\* C24: however the steps of concurrent calls interleave, each call invokes
\* the refresh at most once and the transport at most twice, the refresh
\* invocations add up to the number of calls whose first attempt was
\* refreshable, and no step of a call changes the attempts or the outcome
\* of another.
C24_ConcurrentCallsIndependent == []RefreshesNotCoalesced /\ [][OneCallPerStep]_vars

\* two calls are waiting for their own refresh at the same time
C24_Witness ==
    /\ DOMAIN call = {1, 2}
    /\ call[1].pc = "refreshing" /\ call[2].pc = "refreshing"
    /\ call[1].refresh_pending /\ call[2].refresh_pending
    /\ call[1].refreshes = 1 /\ call[2].refreshes = 1

==============================================================================
